---- MODULE Spec2Model ----
(***************************************************************************)
(* Cosmic-Universe: the BlackHole star simulation (per-frame update of the *)
(* star particle buffers) and the pages' persistent mute setting.          *)
(*                                                                         *)
(* Numbers.  The buffers are Float32Arrays; the model stores every buffer  *)
(* entry as a fixed-point integer with 20 fractional bits (one unit is     *)
(* 2^-20) and rounds to nearest on every store.  The locals of one loop    *)
(* iteration that are below 1 in magnitude (force, unit direction, orbital *)
(* speed) are doubles in the code and carry 30 fractional bits here.       *)
(* Every product and quotient is computed limb-wise so that no             *)
(* intermediate value leaves the 32-bit range of the model checker.        *)
(***************************************************************************)
EXTENDS Integers, Naturals, Sequences, FiniteSets, TLC

\* ------------------------------------------------------------------ bounds
NumStars == 1
MaxFrames == 24

\* ------------------------------------------------------- fixed-point kit
\* half the fractional bits of a stored number, as a factor
HALF == 2 ^ 10
SCALE == HALF * HALF
\* half the fractional bits of a local, as a factor
FHALF == 2 ^ 15
FINE == FHALF * FHALF
STOREDIV == FINE \div SCALE

\* the value of 0 / 0 and of every operation on it (no buffer entry of the
\* model comes near this number)
NaN == 0 - 2147483647

Abs(a) == IF a < 0 THEN 0 - a ELSE a
Sgn(a) == IF a < 0 THEN 0 - 1 ELSE 1

\* round(n / d) for d > 0, ties away from zero
RoundDiv(n, d) == Sgn(n) * ((Abs(n) + d \div 2) \div d)

\* round(a * b / h^2): the product of two fixed-point numbers, rounded.
MulS(a, b, h) ==
  LET x == Abs(a)
      y == Abs(b)
      xh == x \div h
      xl == x % h
      yh == y \div h
      yl == y % h
      c1 == xh * yl
      c2 == xl * yh
      low == xl * yl + (h * h) \div 2
      mid == (c1 % h) + (c2 % h) + (low \div h)
  IN  Sgn(a) * Sgn(b) * (xh * yh + c1 \div h + c2 \div h + mid \div h)

\* floor(a * b / h^2) for a, b >= 0
MulFloor(a, b, h) ==
  LET xh == a \div h
      xl == a % h
      yh == b \div h
      yl == b % h
      c1 == xh * yl
      c2 == xl * yh
      mid == (c1 % h) + (c2 % h) + ((xl * yl) \div h)
  IN  xh * yh + c1 \div h + c2 \div h + mid \div h

\* binary long division: q, r is the quotient and remainder so far
RECURSIVE LongDiv(_, _, _, _)
LongDiv(q, r, b, n) ==
  IF n = 0 THEN (IF r >= b - r THEN q + 1 ELSE q)
  ELSE IF r >= b - r THEN LongDiv(2 * q + 1, r - (b - r), b, n - 1)
       ELSE LongDiv(2 * q, r + r, b, n - 1)

\* round(a * 2^bits / b) for b # 0
DivS(a, b, bits) ==
  Sgn(a) * Sgn(b) * LongDiv(Abs(a) \div Abs(b), Abs(a) % Abs(b), Abs(b), bits)

\* largest r in [lo, hi) with floor(r * r / h^2) <= a
RECURSIVE Bisect(_, _, _, _)
Bisect(lo, hi, a, h) ==
  IF hi - lo <= 1 THEN lo
  ELSE LET m == lo + (hi - lo) \div 2
       IN  IF MulFloor(m, m, h) <= a THEN Bisect(m, hi, a, h)
           ELSE Bisect(lo, m, a, h)

SQRTTOP == 46340 * HALF
\* Math.sqrt of a 20-bit fixed-point number
Sqrt20(a) == Bisect(0, SQRTTOP, a, HALF)
\* Math.sqrt of a 30-bit fixed-point number below 1
Sqrt30(a) == Bisect(0, FINE, a, FHALF)

\* ------------------------------------------------------------ Math.* kit
\* Angles are kept in twelfths of a turn (multiples of pi/6): the random
\* draws of the model are those whose angles fall on that grid.
COS30 == Sqrt30(3 * (FINE \div 4))

\* Math.cos, 30 fractional bits
Cos(k) ==
  LET m == k % 12
  IN  CASE m = 0 -> FINE
        [] m \in {1, 11} -> COS30
        [] m \in {2, 10} -> FINE \div 2
        [] m \in {3, 9} -> 0
        [] m \in {4, 8} -> 0 - (FINE \div 2)
        [] m \in {5, 7} -> 0 - COS30
        [] OTHER -> 0 - FINE

\* Math.sin
Sin(k) == Cos(k + 9)

\* Math.acos of a 20-bit fixed-point cosine: the angle in [0, pi]
Acos(u) == CHOOSE k \in 0..6 : RoundDiv(Cos(k), STOREDIV) = u

\* Math.max; NaN if an operand is NaN
Max(a, b) == IF a = NaN \/ b = NaN THEN NaN ELSE IF a >= b THEN a ELSE b

\* Math.random(): draws in [0, 1), 20 fractional bits
ThetaDraws == {0, SCALE \div 4}
PhiDraws == {SCALE \div 4, SCALE \div 2}
RadiusDraws == {SCALE \div 2}
SizeDraws == {0, SCALE - 1}
ColorDraws == {0, SCALE \div 2}
LifetimeDraws == {0, SCALE \div 2}

\* ------------------------------------------------------------- BlackHole
\* props of <BlackHole>: size, accretionDiskSize, gravitationalStrength
\* a compact hole with the default strength
CompactProps ==
  [size |-> SCALE, accretionDiskSize |-> SCALE,
   gravitationalStrength |-> SCALE \div 2]
\* horizon 1.5, disk 12, strength 0.6
ScenarioProps ==
  [size |-> SCALE, accretionDiskSize |-> 12 * SCALE,
   gravitationalStrength |-> (6 * SCALE) \div 10]
Configs == {CompactProps, ScenarioProps}

\* props .. lifetimes: the props and the star buffers of one <BlackHole>
\* disk:  the position buffer of the accretion disk particles
\* frame: the number of frame callbacks run so far
\* last:  per star, what the latest frame did to it: the branch taken, the
\*        distance at its start, the size draw, and where the star was last
\*        spawned (bookkeeping for the properties, not program state)
\* probe: the inputs and outputs of a function applied on its own
\* soundMuted: the entry 'soundMuted' of localStorage ("null" when absent)
\* page, isMuted: the mounted page and its isMuted state
\* isMutedRef, ambience, played: the state of the page's useSpaceSound hook
\* stored: the values written to 'soundMuted' so far; sinceMount: the
\*        toggles since the page was mounted (bookkeeping)
VARIABLES props, count, positions, velocities, sizes, colors, lifetimes,
          disk, frame, last, probe,
          soundMuted, page, isMuted, isMutedRef, ambience, played,
          stored, sinceMount,
          planetProps, elapsedTime, planet,
          phase, mounted, introTimer, formTimers, navTimers, formShown,
          callbacks, submits, navigations,
          selectedPlanet, showDetailedView,
          particles, particleId,
          showNavbar, lastScrollY, boundScrollY,
          warpParticles, warpSpeed, tunnelRotation,
          mode, name, email, password, hasSignup, calls

starVars == <<props, count, positions, velocities, sizes, colors, lifetimes,
              disk, frame, last>>
soundVars == <<soundMuted, page, isMuted, isMutedRef, ambience, played,
               stored, sinceMount>>
planetVars == <<planetProps, elapsedTime, planet>>
loginVars == <<phase, mounted, introTimer, formTimers, navTimers, formShown,
               callbacks, submits, navigations>>
\* the state of PlanetsPage, AnimatedCursor, Dashboard, WarpTunnel, LoginForm
uiVars == <<selectedPlanet, showDetailedView, particles, particleId,
            showNavbar, lastScrollY, boundScrollY,
            warpParticles, warpSpeed, tunnelRotation,
            mode, name, email, password, hasSignup, calls>>
vars == <<starVars, probe, soundVars, planetVars, loginVars, uiVars>>

\* no <LoginPage> is mounted and no timer of one is pending
LoginIdle ==
  /\ phase = "none" /\ mounted = FALSE /\ introTimer = "none"
  /\ formTimers = 0 /\ navTimers = 0 /\ formShown = FALSE
  /\ callbacks = 0 /\ submits = 0 /\ navigations = 0

\* none of these components is mounted: the values of their useState
\* initialisers
UiIdle ==
  /\ selectedPlanet = "null" /\ showDetailedView = FALSE
  /\ particles = <<>> /\ particleId = 0
  /\ showNavbar = TRUE /\ lastScrollY = 0 /\ boundScrollY = 0
  /\ warpParticles = <<>> /\ warpSpeed = 0 /\ tunnelRotation = 0
  /\ mode = "login" /\ name = "" /\ email = "" /\ password = ""
  /\ hasSignup = FALSE /\ calls = <<>>

\* no <Planet> is mounted
PlanetIdle == planetProps = <<>> /\ elapsedTime = 0 /\ planet = <<>>

\* no page is mounted and nothing was ever stored
SoundIdle ==
  /\ soundMuted = "null" /\ page = "none"
  /\ isMuted = TRUE /\ isMutedRef = FALSE
  /\ ambience = "paused" /\ played = "none"
  /\ stored = <<>> /\ sinceMount = 0

NoProbe == probe = [kind |-> "none"]

Stars == 1..count
\* i3 of the star loop (1-based)
I3(i) == 3 * (i - 1) + 1

\* size * 1.5
Horizon(p) == (p.size * 3) \div 2

\* (variant: the shell starts at accretionDiskSize, not at twice that)
SpawnPosition_NearShell(p, rTheta, rPhi, rRadius) ==
  LET theta == (12 * rTheta) \div SCALE
      phi == Acos(2 * rPhi - SCALE)
      radius == p.accretionDiskSize + MulS(rRadius, p.accretionDiskSize, HALF)
  IN  << MulS(MulS(radius, Sin(phi), FHALF), Cos(theta), FHALF),
         MulS(MulS(radius, Sin(phi), FHALF), Sin(theta), FHALF),
         MulS(radius, Cos(phi), FHALF) >>

\* (variant: phi is drawn uniformly in [0, pi])
SpawnPosition_UniformPhi(p, rTheta, rPhi, rRadius) ==
  LET theta == (12 * rTheta) \div SCALE
      phi == (6 * rPhi) \div SCALE
      radius == p.accretionDiskSize * 2 + MulS(rRadius, p.accretionDiskSize, HALF)
  IN  << MulS(MulS(radius, Sin(phi), FHALF), Cos(theta), FHALF),
         MulS(MulS(radius, Sin(phi), FHALF), Sin(theta), FHALF),
         MulS(radius, Cos(phi), FHALF) >>

\* the spawn-shell procedure: theta, phi, radius and the three coordinates
SpawnPosition(p, rTheta, rPhi, rRadius) ==
  LET theta == (12 * rTheta) \div SCALE
      phi == Acos(2 * rPhi - SCALE)
      radius == p.accretionDiskSize * 2 + MulS(rRadius, p.accretionDiskSize, HALF)
  IN  << MulS(MulS(radius, Sin(phi), FHALF), Cos(theta), FHALF),
         MulS(MulS(radius, Sin(phi), FHALF), Sin(theta), FHALF),
         MulS(radius, Cos(phi), FHALF) >>

\* 0.2 + Math.random() * 0.3
SpawnSize(r) == SCALE \div 5 + RoundDiv(3 * r, 10)

\* white or yellow
StarColor(r) ==
  IF r < SCALE \div 2 THEN <<SCALE, SCALE, SCALE>>
  ELSE <<SCALE, (9 * SCALE) \div 10, (6 * SCALE) \div 10>>

\* Math.random() * 100
SpawnLifetime(r) == MulS(r, 100 * SCALE, HALF)

\* Math.sqrt(x * x + y * y + z * z)
Distance(x, y, z) ==
  IF x = NaN \/ y = NaN \/ z = NaN THEN NaN
  ELSE Sqrt20(MulS(x, x, HALF) + MulS(y, y, HALF) + MulS(z, z, HALF))

DistanceToCenter(i) ==
  Distance(positions[I3(i)], positions[I3(i) + 1], positions[I3(i) + 2])

\* (variant: the test uses the radius of the black sphere, size)
ReachedHorizon_BodyRadius(d, p) == d # NaN /\ d < p.size

\* the test of the star loop: has the star reached the event horizon
\* (a comparison with NaN is false)
ReachedHorizon(d, p) == d # NaN /\ d < Horizon(p)

\* (gravitationalStrength * 0.5) / (distanceToCenter * distanceToCenter)
ForceMagnitude(p, d) ==
  DivS(p.gravitationalStrength \div 2, MulS(d, d, HALF), 30)

\* -x / distanceToCenter
Dir(x, d) == DivS(0 - x, d, 30)

\* Math.sqrt(forceMagnitude / distanceToCenter) * 2
OrbitalSpeed(f, d) == Sqrt30(DivS(f, d, 20)) * 2

\* (variant: no damping)
Damp_None(v) == v

\* velocities[k] *= 0.99
Damp(v) == RoundDiv(v * 99, 100)

\* the += writes of one component: gravity, orbit
Gravity(v, dir, f) == v + RoundDiv(MulS(dir, f, FHALF), 10 * STOREDIV)
Orbit(v, dir, o) == v + RoundDiv(MulS(dir, o, FHALF), 2 * STOREDIV)

\* (variant: both orbital writes take the sign of the direction)
Kick_OrbitSameSign(vel, f, dirX, dirY, dirZ, o) ==
  << Orbit(Gravity(vel[1], dirX, f), dirZ, o),
     Gravity(vel[2], dirY, f),
     Orbit(Gravity(vel[3], dirZ, f), dirX, o) >>

\* the += writes of the else-branch, given its locals
Kick(vel, f, dirX, dirY, dirZ, o) ==
  << Orbit(Gravity(vel[1], dirX, f), 0 - dirZ, o),
     Gravity(vel[2], dirY, f),
     Orbit(Gravity(vel[3], dirZ, f), dirX, o) >>

WithForce(vel, pos, d, f) ==
  Kick(vel, f, Dir(pos[1], d), Dir(pos[2], d), Dir(pos[3], d),
       OrbitalSpeed(f, d))

\* the velocity of a star after the += writes, from distance d
\* (a distance of 0 makes the direction 0 / 0)
Kicked(p, vel, pos, d) ==
  IF d = NaN \/ d = 0 THEN <<NaN, NaN, NaN>>
  ELSE WithForce(vel, pos, d, ForceMagnitude(p, d))

\* the three *= 0.99 writes
DampAll(v) ==
  IF v[1] = NaN THEN v ELSE <<Damp(v[1]), Damp(v[2]), Damp(v[3])>>

\* velocity of a star after the else-branch, from distance d
NewVelocity(p, vel, pos, d) == DampAll(Kicked(p, vel, pos, d))

\* 0.2 + Math.random() * 0.1
BaseSize(r) == SCALE \div 5 + RoundDiv(r, 10)

\* (variant: the ratio is inverted)
StarSize_Inverted(p, d, r) ==
  LET normalizedDist == DivS(p.accretionDiskSize * 3, d, 20)
  IN  IF d = NaN THEN NaN
      ELSE MulS(BaseSize(r), Max(SCALE \div 10, normalizedDist), HALF)

\* (0.2 + Math.random() * 0.1) * Math.max(0.1, normalizedDist)
StarSize(p, d, r) ==
  LET normalizedDist == DivS(d, p.accretionDiskSize * 3, 20)
  IN  IF d = NaN THEN NaN
      ELSE MulS(BaseSize(r), Max(SCALE \div 10, normalizedDist), HALF)

\* a Float32Array of n * 3 entries from n triples
Flat3(t, n) == [k \in 1..(3 * n) |-> t[((k - 1) \div 3) + 1][((k - 1) % 3) + 1]]
Triple(buf, i) == <<buf[I3(i)], buf[I3(i) + 1], buf[I3(i) + 2]>>

\* the draws of one iteration of the initialisation loop
InitDraws ==
  [theta : ThetaDraws, phi : PhiDraws, radius : RadiusDraws,
   size : SizeDraws, color : ColorDraws, lifetime : LifetimeDraws]

\* (variant: sizes is allocated like the three-component buffers)
StarData_WideSizes(p, n, rnd) ==
  [positions |-> Flat3([i \in 1..n |->
        SpawnPosition(p, rnd[i].theta, rnd[i].phi, rnd[i].radius)], n),
   velocities |-> [k \in 1..(3 * n) |-> 0],
   sizes |-> [k \in 1..(3 * n) |->
        IF k <= n THEN SpawnSize(rnd[k].size) ELSE 0],
   colors |-> Flat3([i \in 1..n |-> StarColor(rnd[i].color)], n),
   lifetimes |-> [i \in 1..n |-> SpawnLifetime(rnd[i].lifetime)],
   count |-> n]

\* starData: the buffers as the useMemo callback fills them
StarData(p, n, rnd) ==
  [positions |-> Flat3([i \in 1..n |->
        SpawnPosition(p, rnd[i].theta, rnd[i].phi, rnd[i].radius)], n),
   velocities |-> [k \in 1..(3 * n) |-> 0],
   sizes |-> [i \in 1..n |-> SpawnSize(rnd[i].size)],
   colors |-> Flat3([i \in 1..n |-> StarColor(rnd[i].color)], n),
   lifetimes |-> [i \in 1..n |-> SpawnLifetime(rnd[i].lifetime)],
   count |-> n]

\* ------------------------------------------------- the accretion disk
\* particleData.count
NumDisk == 1

\* the draws of iteration i of the initialisation loop of the disk: the
\* angle (in twelfths of a turn), the radius and the height
DiskDraws(i) == {[angle |-> (5 * i) % 12, radius |-> SCALE \div 2, y |-> SCALE \div 4]}

\* positions[i3 .. i3 + 2] of a disk particle
DiskPosition(p, r) ==
  LET radius == Horizon(p) + MulS(r.radius, p.accretionDiskSize, HALF)
  IN  << MulS(radius, Cos(r.angle), FHALF),
         (r.y - SCALE \div 2) \div 2,
         MulS(radius, Sin(r.angle), FHALF) >>

\* particleData.positions
DiskData(p, n, rnd) == Flat3([i \in 1..n |-> DiskPosition(p, rnd[i])], n)

\* Math.sin and Math.cos of a small angle (30 fractional bits), by their
\* series: the disk turns by less than 0.05 / (size * 1.5) a frame
SinSmall(a) == a - MulS(MulS(a, a, FHALF), a, FHALF) \div 6
CosSmall(a) ==
  FINE - MulS(a, a, FHALF) \div 2
       + MulS(MulS(a, a, FHALF), MulS(a, a, FHALF), FHALF) \div 24

\* speed * 0.01 with speed = 0.5 / (radius * 0.1)
DiskTurn(radius) == DivS(SCALE \div 20, radius, 30)

\* x and z turned about the y axis by the angle of cosine c and sine s:
\* Math.cos(angle + turn) * radius is x * cos(turn) - z * sin(turn), and
\* the sine likewise
Turned(x, z, c, s) ==
  << MulS(x, c, FHALF) - MulS(z, s, FHALF),
     MulS(z, c, FHALF) + MulS(x, s, FHALF) >>
TurnedBy(x, z, turn) == Turned(x, z, CosSmall(turn), SinSmall(turn))
TurnedAt(x, z, radius) ==
  IF radius = 0 THEN <<NaN, NaN>> ELSE TurnedBy(x, z, DiskTurn(radius))

\* one iteration of the disk loop: x and z of the particle turned by
\* speed * 0.01
DiskIter(x, z) ==
  IF x = NaN \/ z = NaN THEN <<NaN, NaN>>
  ELSE TurnedAt(x, z, Sqrt20(MulS(x, x, HALF) + MulS(z, z, HALF)))

\* the writes of iteration i of the disk loop
WriteDisk(buf, i, new) == [buf EXCEPT ![I3(i)] = new[1], ![I3(i) + 2] = new[2]]
DiskIterAt(buf, i) == WriteDisk(buf, i, DiskIter(buf[I3(i)], buf[I3(i) + 2]))

\* the disk loop, index by index, on the buffer buf
RECURSIVE DiskLoop(_, _)
DiskLoop(buf, i) ==
  IF i = 0 THEN buf ELSE DiskIterAt(DiskLoop(buf, i - 1), i)

Init ==
  /\ props \in Configs
  /\ \E rnd \in [1..NumDisk -> UNION {DiskDraws(i) : i \in 1..NumDisk}] :
       /\ \A i \in 1..NumDisk : rnd[i] \in DiskDraws(i)
       /\ disk = DiskData(props, NumDisk, rnd)
  /\ \E rnd \in [1..NumStars -> InitDraws] :
       LET starData == StarData(props, NumStars, rnd)
       IN  /\ count = starData.count
           /\ positions = starData.positions
           /\ velocities = starData.velocities
           /\ sizes = starData.sizes
           /\ colors = starData.colors
           /\ lifetimes = starData.lifetimes
  /\ frame = 0
  /\ last = [i \in 1..NumStars |->
        [branch |-> "spawn", dist |-> 0, draw |-> 0,
         origin |-> Triple(positions, i)]]
  /\ NoProbe
  /\ SoundIdle /\ PlanetIdle /\ LoginIdle /\ UiIdle

\* the draws of one iteration of the star loop: four in the respawn branch
\* (theta, phi, radius, size), one in the else-branch (size)
RespawnDraws ==
  [branch : {"respawn"}, theta : ThetaDraws, phi : PhiDraws,
   radius : RadiusDraws, size : SizeDraws]
ForceDraws ==
  [branch : {"force"}, theta : {0}, phi : {0}, radius : {0}, size : SizeDraws]

\* the respawn branch of the star loop
Respawn(p, r) ==
  [pos |-> SpawnPosition(p, r.theta, r.phi, r.radius),
   vel |-> <<0, 0, 0>>,
   size |-> SpawnSize(r.size),
   life |-> 0]

\* positions[k] += velocities[k]; lifetimes[i] += 1
Integrate(pos, v, life) ==
  [pos |-> IF v[1] = NaN THEN v
           ELSE <<pos[1] + v[1], pos[2] + v[2], pos[3] + v[3]>>,
   vel |-> v,
   life |-> life + SCALE]

\* (variant: the position is integrated before the damping)
Pull_IntegrateFirst(p, pos, vel, life, d) ==
  [Integrate(pos, Kicked(p, vel, pos, d), life)
     EXCEPT !.vel = NewVelocity(p, vel, pos, d)]

\* the else-branch of the star loop without the size write
Pull(p, pos, vel, life, d) == Integrate(pos, NewVelocity(p, vel, pos, d), life)

\* (variant: the respawn branch forgets lifetimes[i] = 0)
StarStep_KeepLifetime(p, pos, vel, life, d, pulled, r) ==
  IF ReachedHorizon(d, p) THEN [Respawn(p, r) EXCEPT !.life = life]
  ELSE [pos |-> pulled.pos, vel |-> pulled.vel,
        size |-> StarSize(p, d, r.size), life |-> pulled.life]

\* (variant: a star older than 100 frames is respawned as well)
StarStep_RespawnOld(p, pos, vel, life, d, pulled, r) ==
  IF ReachedHorizon(d, p) \/ life > 100 * SCALE THEN Respawn(p, r)
  ELSE [pos |-> pulled.pos, vel |-> pulled.vel,
        size |-> StarSize(p, d, r.size), life |-> pulled.life]

\* one iteration of the star loop for star i, whose distance is d
StarStep(p, pos, vel, life, d, pulled, r) ==
  IF ReachedHorizon(d, p) THEN Respawn(p, r)
  ELSE [pos |-> pulled.pos, vel |-> pulled.vel,
        size |-> StarSize(p, d, r.size), life |-> pulled.life]

\* the loops of the frame callback, index by index
RECURSIVE DistLoop(_)
DistLoop(i) ==
  IF i = 0 THEN <<>> ELSE Append(DistLoop(i - 1), DistanceToCenter(i))

RECURSIVE PullLoop(_, _)
PullLoop(i, d) ==
  IF i = 0 THEN <<>>
  ELSE Append(PullLoop(i - 1, d),
         IF ReachedHorizon(d[i], props) THEN [pos |-> <<>>, vel |-> <<>>, life |-> 0]
         ELSE Pull(props, Triple(positions, i), Triple(velocities, i),
                   lifetimes[i], d[i]))

RECURSIVE StarLoop(_, _, _, _)
StarLoop(i, d, pulled, rnd) ==
  IF i = 0 THEN <<>>
  ELSE Append(StarLoop(i - 1, d, pulled, rnd),
         StarStep(props, Triple(positions, i), Triple(velocities, i),
                  lifetimes[i], d[i], pulled[i], rnd[i]))

\* (variant: a respawn draws the colour of the star again, as white)
Frame_ResampleColors ==
  /\ frame < MaxFrames
  /\ disk' = DiskLoop(disk, Len(disk) \div 3)
  /\ \E d \in {DistLoop(count)} :
     \E pulled \in {PullLoop(count, d)} :
     \E rnd \in [Stars -> RespawnDraws \cup ForceDraws] :
       /\ \A i \in Stars : rnd[i].branch =
             (IF ReachedHorizon(d[i], props) THEN "respawn" ELSE "force")
       /\ \E new \in {StarLoop(count, d, pulled, rnd)} :
            /\ positions' = Flat3([i \in Stars |-> new[i].pos], count)
            /\ velocities' = Flat3([i \in Stars |-> new[i].vel], count)
            /\ sizes' = [i \in Stars |-> new[i].size]
            /\ lifetimes' = [i \in Stars |-> new[i].life]
            /\ colors' = [k \in 1..(3 * count) |->
                  IF rnd[((k - 1) \div 3) + 1].branch = "respawn" THEN SCALE
                  ELSE colors[k]]
            /\ last' = [i \in Stars |->
                  [branch |-> rnd[i].branch, dist |-> d[i],
                   draw |-> rnd[i].size,
                   origin |-> IF rnd[i].branch = "respawn" THEN new[i].pos
                              ELSE last[i].origin]]
  /\ frame' = frame + 1
  /\ UNCHANGED <<props, count, probe, soundVars, planetVars, loginVars, uiVars>>

\* useFrame: the disk loop over all particleData.count particles and the
\* star loop over all starData.count stars
Frame ==
  /\ frame < MaxFrames
  /\ disk' = DiskLoop(disk, Len(disk) \div 3)
  /\ \E d \in {DistLoop(count)} :
     \E pulled \in {PullLoop(count, d)} :
     \E rnd \in [Stars -> RespawnDraws \cup ForceDraws] :
       /\ \A i \in Stars : rnd[i].branch =
             (IF ReachedHorizon(d[i], props) THEN "respawn" ELSE "force")
       /\ \E new \in {StarLoop(count, d, pulled, rnd)} :
            /\ positions' = Flat3([i \in Stars |-> new[i].pos], count)
            /\ velocities' = Flat3([i \in Stars |-> new[i].vel], count)
            /\ sizes' = [i \in Stars |-> new[i].size]
            /\ lifetimes' = [i \in Stars |-> new[i].life]
            /\ last' = [i \in Stars |->
                  [branch |-> rnd[i].branch, dist |-> d[i],
                   draw |-> rnd[i].size,
                   origin |-> IF rnd[i].branch = "respawn" THEN new[i].pos
                              ELSE last[i].origin]]
  /\ frame' = frame + 1
  /\ UNCHANGED <<props, count, colors, probe, soundVars, planetVars, loginVars, uiVars>>

Next == Frame

Spec == Init /\ [][Next]_vars

\* no <BlackHole> is mounted
StarsIdle ==
  /\ props = ScenarioProps /\ count = 0
  /\ positions = <<>> /\ velocities = <<>> /\ sizes = <<>>
  /\ colors = <<>> /\ lifetimes = <<>>
  /\ disk = <<>>
  /\ frame = 0 /\ last = <<>>

\* ------------------------------------------- the velocity writes, held
\* A star held where it was spawned: each step applies the velocity writes
\* of the else-branch and leaves the position alone.
MaxHeld == 120

InitHeld ==
  /\ StarsIdle /\ SoundIdle /\ PlanetIdle /\ LoginIdle /\ UiIdle
  /\ \E p \in Configs, t \in ThetaDraws, f \in PhiDraws, r \in RadiusDraws :
     \E pos \in {SpawnPosition(p, t, f, r)} :
     \E d \in {Distance(pos[1], pos[2], pos[3])} :
       probe = [kind |-> "held", p |-> p, pos |-> pos, d |-> d,
                vel |-> <<0, 0, 0>>,
                impulse |-> Kicked(p, <<0, 0, 0>>, pos, d),
                steps |-> 0]

HeldStep ==
  /\ probe.kind = "held"
  /\ probe.steps < MaxHeld
  /\ ~ReachedHorizon(probe.d, probe.p)
  /\ \E v \in {NewVelocity(probe.p, probe.vel, probe.pos, probe.d)} :
       probe' = [probe EXCEPT !.vel = v, !.steps = @ + 1]
  /\ UNCHANGED <<starVars, soundVars, planetVars, loginVars, uiVars>>

NextHeld == HeldStep

SpecHeld == InitHeld /\ [][NextHeld]_vars

\* ------------------------------------------------ the size write, alone
\* start-of-frame distances of the else-branch: the horizon, twice the
\* horizon, and eighths of 3 * accretionDiskSize from the horizon on
ProbeDistances(p) ==
  {Horizon(p), 2 * Horizon(p)} \cup
  { d \in { (k * p.accretionDiskSize * 3) \div 8 : k \in 1..10 } : d >= Horizon(p) }

InitSize ==
  /\ StarsIdle /\ SoundIdle /\ PlanetIdle /\ LoginIdle /\ UiIdle
  /\ \E p \in Configs :
       probe \in [kind : {"size"}, p : {p},
                  d1 : ProbeDistances(p), d2 : ProbeDistances(p),
                  r1 : SizeDraws, r2 : SizeDraws,
                  s1 : {0}, s2 : {0}, done : {FALSE}]

SizeStep ==
  /\ probe.kind = "size"
  /\ ~probe.done
  /\ probe' = [probe EXCEPT !.s1 = StarSize(probe.p, probe.d1, probe.r1),
                            !.s2 = StarSize(probe.p, probe.d2, probe.r2),
                            !.done = TRUE]
  /\ UNCHANGED <<starVars, soundVars, planetVars, loginVars, uiVars>>

NextSize == SizeStep

SpecSize == InitSize /\ [][NextSize]_vars

\* ------------------------------------ one star, run twice: the lifetimes
\* Two runs, a and b, of the iterations of one star, from the same spawn
\* and with the same draws in every frame; the runs start with different
\* lifetimes.  The probe keeps, of the latest step, the branch taken, the
\* distance at its start, the star of run a before it (prev) and the
\* lifetime of run b before it (lifeB).
MaxTwinSteps == 24

\* lifetimes a star can have at the start of a frame
TwinLifetimes == {0, 50 * SCALE, 200 * SCALE}

\* one iteration of the star loop for the star st, with the draws r
Iterate(p, st, d, r) ==
  StarStep(p, st.pos, st.vel, st.life, d,
           IF ReachedHorizon(d, p) THEN [pos |-> <<>>, vel |-> <<>>, life |-> 0]
           ELSE Pull(p, st.pos, st.vel, st.life, d),
           r)

InitTwin ==
  /\ StarsIdle /\ SoundIdle /\ PlanetIdle /\ LoginIdle /\ UiIdle
  /\ \E p \in Configs, rnd \in InitDraws, lifeA, lifeB \in TwinLifetimes :
       /\ lifeA < lifeB
       /\ \E pos \in {SpawnPosition(p, rnd.theta, rnd.phi, rnd.radius)} :
            probe = [kind |-> "twin", p |-> p, steps |-> 0,
                     a |-> [pos |-> pos, vel |-> <<0, 0, 0>>,
                            size |-> SpawnSize(rnd.size), life |-> lifeA],
                     b |-> [pos |-> pos, vel |-> <<0, 0, 0>>,
                            size |-> SpawnSize(rnd.size), life |-> lifeB],
                     branch |-> "spawn", dist |-> 0,
                     prev |-> [pos |-> pos, vel |-> <<0, 0, 0>>,
                               size |-> SpawnSize(rnd.size), life |-> lifeA],
                     lifeB |-> lifeB]

TwinStep ==
  /\ probe.kind = "twin"
  /\ probe.steps < MaxTwinSteps
  /\ \E dA \in {Distance(probe.a.pos[1], probe.a.pos[2], probe.a.pos[3])} :
     \E dB \in {Distance(probe.b.pos[1], probe.b.pos[2], probe.b.pos[3])} :
     \E r \in RespawnDraws \cup ForceDraws :
       /\ r.branch = (IF ReachedHorizon(dA, probe.p) THEN "respawn" ELSE "force")
       /\ \E a \in {Iterate(probe.p, probe.a, dA, r)} :
          \E b \in {Iterate(probe.p, probe.b, dB, r)} :
            probe' = [probe EXCEPT !.a = a, !.b = b, !.steps = @ + 1,
                                   !.branch = r.branch, !.dist = dA,
                                   !.prev = probe.a,
                                   !.lifeB = probe.b.life]
  /\ UNCHANGED <<starVars, soundVars, planetVars, loginVars, uiVars>>

NextTwin == TwinStep

SpecTwin == InitTwin /\ [][NextTwin]_vars

\* ------------------------------------------ the frame callback, in place
\* The two loops as the callback runs them: every iteration reads the
\* buffers as the iterations before it left them and writes its entries in
\* place.
OwnStars == 2
MaxOwnFrames == 22

\* the buffers the callback writes
Bufs ==
  [disk |-> disk, positions |-> positions, velocities |-> velocities,
   sizes |-> sizes, lifetimes |-> lifetimes]

\* (variant: x is read at index i, not i3)
StarAt_PlainIndex(b, i) ==
  [pos |-> <<b.positions[i], b.positions[I3(i) + 1], b.positions[I3(i) + 2]>>,
   vel |-> Triple(b.velocities, i),
   life |-> b.lifetimes[i]]

\* what iteration i of the star loop reads: x, y, z, velocities[i3 ..],
\* lifetimes[i]
StarAt(b, i) ==
  [pos |-> Triple(b.positions, i),
   vel |-> Triple(b.velocities, i),
   life |-> b.lifetimes[i]]

\* the writes of iteration i of the star loop, new being its result
WriteStar(b, i, new) ==
  [b EXCEPT !.positions = [@ EXCEPT ![I3(i)] = new.pos[1],
                                    ![I3(i) + 1] = new.pos[2],
                                    ![I3(i) + 2] = new.pos[3]],
            !.velocities = [@ EXCEPT ![I3(i)] = new.vel[1],
                                     ![I3(i) + 1] = new.vel[2],
                                     ![I3(i) + 2] = new.vel[3]],
            !.sizes = [@ EXCEPT ![i] = new.size],
            !.lifetimes = [@ EXCEPT ![i] = new.life]]

\* iteration i of the star loop on the buffers b, st being what it reads
StarIterOf(b, i, st, r) ==
  WriteStar(b, i, Iterate(props, st, Distance(st.pos[1], st.pos[2], st.pos[3]), r))
StarIter(b, i, r) == StarIterOf(b, i, StarAt(b, i), r)

\* the star loop over the indices of order, one after the other
RECURSIVE RunStars(_, _, _)
RunStars(b, order, rnd) ==
  IF order = <<>> THEN b
  ELSE RunStars(StarIter(b, Head(order), rnd[Head(order)]), Tail(order), rnd)

\* the disk loop on the buffers b
RunDisk(b) == [b EXCEPT !.disk = DiskLoop(@, Len(@) \div 3)]

Ascending(n) == [k \in 1..n |-> k]
Descending(n) == [k \in 1..n |-> n + 1 - k]

\* the draws of the initialisation of a star, and of an iteration
OwnInitDraws == {r \in InitDraws : r.size = 0 /\ r.color = 0 /\ r.lifetime = 0}
OwnDraws == {r \in RespawnDraws \cup ForceDraws : r.size = 0}

InitOwn ==
  /\ props \in Configs
  /\ \E rnd \in [1..NumDisk -> UNION {DiskDraws(i) : i \in 1..NumDisk}] :
       /\ \A i \in 1..NumDisk : rnd[i] \in DiskDraws(i)
       /\ disk = DiskData(props, NumDisk, rnd)
  /\ \E rnd \in [1..OwnStars -> OwnInitDraws] :
     \E starData \in {StarData(props, OwnStars, rnd)} :
       /\ count = starData.count
       /\ positions = starData.positions
       /\ velocities = starData.velocities
       /\ sizes = starData.sizes
       /\ colors = starData.colors
       /\ lifetimes = starData.lifetimes
  /\ frame = 0
  /\ last = <<>>
  /\ probe = [kind |-> "own", before |-> Bufs, rnd |-> <<>>]
  /\ SoundIdle /\ PlanetIdle /\ LoginIdle /\ UiIdle

\* useFrame: the disk loop, then the star loop from the first star on
OwnFrame ==
  /\ probe.kind = "own"
  /\ frame < MaxOwnFrames
  /\ \E d \in {DistLoop(count)} :
     \E rnd \in [Stars -> OwnDraws] :
       /\ \A i \in Stars : rnd[i].branch =
             (IF ReachedHorizon(d[i], props) THEN "respawn" ELSE "force")
       /\ \E b \in {RunStars(RunDisk(Bufs), Ascending(count), rnd)} :
            /\ disk' = b.disk
            /\ positions' = b.positions
            /\ velocities' = b.velocities
            /\ sizes' = b.sizes
            /\ lifetimes' = b.lifetimes
       /\ probe' = [kind |-> "own", before |-> Bufs, rnd |-> rnd]
  /\ frame' = frame + 1
  /\ UNCHANGED <<props, count, colors, last, soundVars, planetVars, loginVars, uiVars>>

NextOwn == OwnFrame

SpecOwn == InitOwn /\ [][NextOwn]_vars

\* --------------------------------------- the spawn-shell procedure, alone
\* draws on a finer grid: every twelfth of a turn for theta; 0, 1/4, 1/2,
\* 3/4 for phi (cosines -1, -1/2, 0, 1/2); both ends and the middle for
\* the radius
AzimuthDraws == { (k * SCALE + 11) \div 12 : k \in 0..11 }
PolarDraws == { (k * SCALE) \div 4 : k \in 0..3 }
ShellDraws == {0, SCALE \div 2, SCALE - 1}

InitSpawn ==
  /\ StarsIdle /\ SoundIdle /\ PlanetIdle /\ LoginIdle /\ UiIdle
  /\ probe \in [kind : {"spawn"}, p : Configs,
                 theta : AzimuthDraws, phi : PolarDraws, radius : ShellDraws,
                 pos : {<<0, 0, 0>>}, done : {FALSE}]

SpawnStep ==
  /\ probe.kind = "spawn"
  /\ ~probe.done
  /\ probe' = [probe EXCEPT
        !.pos = SpawnPosition(probe.p, probe.theta, probe.phi, probe.radius),
        !.done = TRUE]
  /\ UNCHANGED <<starVars, soundVars, planetVars, loginVars, uiVars>>

NextSpawn == SpawnStep

SpecSpawn == InitSpawn /\ [][NextSpawn]_vars

\* ------------------------------------------------- the pages' mute setting
\* Login, Dashboard, Explore, Planets and Journey carry the same isMuted
\* state, ambience effect and toggleMute handler, each with its own
\* useSpaceSound hook; one page is mounted at a time.
Pages == {"Login", "Dashboard", "Explore", "Planets", "Journey"}

MaxToggles == 4

\* the sounds of the pages' click handlers
Sounds == {"click", "success"}

\* String(newMuted)
ToStr(b) == IF b THEN "true" ELSE "false"

\* (variant: sound is on when nothing is stored)
InitialMuted_DefaultOn(saved) == IF saved # "null" THEN saved = "true" ELSE FALSE

\* the initialiser of isMuted: saved !== null ? saved === 'true' : true
InitialMuted(saved) == IF saved # "null" THEN saved = "true" ELSE TRUE

\* playAmbience of the hook (ambienceRef is set once the hook is mounted)
PlayAmbience(mutedRef, amb) == IF ~mutedRef THEN "playing" ELSE amb

\* (variant: the effect starts the ambience whatever isMuted is)
AmbienceEffect_AlwaysPlay(muted, mutedRef) == PlayAmbience(mutedRef, "paused")

\* the page's ambience effect, run after a render with a new isMuted: the
\* cleanup of the previous run (stopAmbience), then the effect itself
AmbienceEffect(muted, mutedRef) ==
  IF ~muted THEN PlayAmbience(mutedRef, "paused") ELSE "paused"

\* play of the hook: the sound started by the handler that calls it (before,
\* when the hook is muted)
Play(mutedRef, sound, before) == IF mutedRef THEN before ELSE sound

InitSound ==
  /\ StarsIdle /\ NoProbe /\ PlanetIdle /\ LoginIdle /\ UiIdle
  /\ soundMuted \in {"null", "true", "false"}
  /\ page = "none"
  /\ isMuted = TRUE /\ isMutedRef = FALSE
  /\ ambience = "paused" /\ played = "none"
  /\ stored = IF soundMuted = "null" THEN <<>> ELSE <<soundMuted>>
  /\ sinceMount = 0

\* a page is mounted: useState initialiser, useRef(false), then the effects
Mount(pg) ==
  /\ page = "none"
  /\ page' = pg
  /\ isMuted' = InitialMuted(soundMuted)
  /\ isMutedRef' = FALSE
  /\ ambience' = AmbienceEffect(isMuted', isMutedRef')
  /\ played' = "none"
  /\ sinceMount' = 0
  /\ UNCHANGED <<soundMuted, stored, starVars, probe, planetVars, loginVars, uiVars>>

\* toggleMute, and the ambience effect of the render it causes
ToggleMute ==
  /\ page # "none"
  /\ Len(stored) < MaxToggles
  /\ LET newMuted == ~isMuted
     IN  /\ isMuted' = newMuted
         /\ isMutedRef' = newMuted
         /\ soundMuted' = ToStr(newMuted)
         /\ played' = IF ~newMuted THEN Play(isMutedRef', "click", "none")
                      ELSE "none"
         /\ ambience' = AmbienceEffect(newMuted, isMutedRef')
  /\ stored' = Append(stored, soundMuted')
  /\ sinceMount' = sinceMount + 1
  /\ UNCHANGED <<page, starVars, probe, planetVars, loginVars, uiVars>>

\* a click handler of the page that calls play(sound)
Click(sound) ==
  /\ page # "none"
  /\ played' = Play(isMutedRef, sound, "none")
  /\ UNCHANGED <<soundMuted, page, isMuted, isMutedRef, ambience, stored,
                 sinceMount, starVars, probe, planetVars, loginVars, uiVars>>

\* onMouseEnter={() => !isMuted && play('hover', 0.1)}
Hover ==
  /\ page # "none"
  /\ played' = IF ~isMuted THEN Play(isMutedRef, "hover", "none") ELSE "none"
  /\ UNCHANGED <<soundMuted, page, isMuted, isMutedRef, ambience, stored,
                 sinceMount, starVars, probe, planetVars, loginVars, uiVars>>

\* the page is left: the cleanups pause every sound, the state is dropped
Unmount ==
  /\ page # "none"
  /\ page' = "none"
  /\ isMuted' = TRUE /\ isMutedRef' = FALSE
  /\ ambience' = "paused" /\ played' = "none"
  /\ sinceMount' = 0
  /\ UNCHANGED <<soundMuted, stored, starVars, probe, planetVars, loginVars, uiVars>>

NextSound ==
  \/ \E pg \in Pages : Mount(pg)
  \/ ToggleMute
  \/ \E sound \in Sounds : Click(sound)
  \/ Hover
  \/ Unmount

SpecSound == InitSound /\ [][NextSound]_vars

\* ------------------------------------------------------------- <Planet>
\* One <Planet> rendered in two scenes that share the clock and the props
\* but call the frame callback at different times: planet["a"] and
\* planet["b"]. The clock counts ticks of pi/3 seconds and orbitSpeed is
\* kept in twelfths of a turn per tick, so that every angle falls on the
\* grid of Cos and Sin (orbitSpeed 0.5 is one twelfth a tick).
MaxClock == 4
MaxPlanetFrames == 3

Scenes == {"a", "b"}

\* the <Planet> elements of AnimatedUniverse: an orbiting one with a ring,
\* an orbiting one without, and the one that stays in place
PlanetConfigs ==
  { [position |-> <<0 - 8 * SCALE, 2 * SCALE, 0 - 10 * SCALE>>,
     orbitRadius |-> 5 * SCALE, orbitSpeed |-> 2,
     rotationSpeed |-> SCALE \div 100, hasRing |-> TRUE],
    [position |-> <<5 * SCALE, 5 * SCALE, 0 - 20 * SCALE>>,
     orbitRadius |-> 3 * SCALE, orbitSpeed |-> 1,
     rotationSpeed |-> SCALE \div 100, hasRing |-> FALSE],
    [position |-> <<0, 0, 0 - 30 * SCALE>>,
     orbitRadius |-> 0, orbitSpeed |-> 0,
     rotationSpeed |-> SCALE \div 100, hasRing |-> FALSE] }

\* Math.random() * Math.PI * 2, in twelfths of a turn
InitialAngles == {0, 5}

\* (variant: the angle advances by orbitSpeed with every call)
PlanetFrame_PerCall(p, st, t) ==
  LET angle == p.initialAngle + st.frames * p.orbitSpeed
  IN  [group |-> IF p.orbitRadius > 0
                 THEN << MulS(p.orbitRadius, Cos(angle), FHALF) + p.position[1],
                         st.group[2],
                         MulS(p.orbitRadius, Sin(angle), FHALF) + p.position[3] >>
                 ELSE st.group,
       meshRotation |-> st.meshRotation + p.rotationSpeed,
       ringRotation |-> IF p.hasRing THEN st.ringRotation + SCALE \div 1000
                        ELSE st.ringRotation,
       frames |-> st.frames + 1,
       at |-> t]

\* the frame callback of <Planet> at state.clock.elapsedTime = t, on the
\* objects st of the three refs; frames and at record the calls made
PlanetFrame(p, st, t) ==
  LET angle == p.initialAngle + t * p.orbitSpeed
  IN  [group |-> IF p.orbitRadius > 0
                 THEN << MulS(p.orbitRadius, Cos(angle), FHALF) + p.position[1],
                         st.group[2],
                         MulS(p.orbitRadius, Sin(angle), FHALF) + p.position[3] >>
                 ELSE st.group,
       meshRotation |-> st.meshRotation + p.rotationSpeed,
       ringRotation |-> IF p.hasRing THEN st.ringRotation + SCALE \div 1000
                        ELSE st.ringRotation,
       frames |-> st.frames + 1,
       at |-> t]

\* <group ref={groupRef} position={position}> and the objects in it
Mounted(p) ==
  [group |-> p.position, meshRotation |-> 0, ringRotation |-> 0,
   frames |-> 0, at |-> 0]

InitPlanet ==
  /\ StarsIdle /\ NoProbe /\ SoundIdle /\ LoginIdle /\ UiIdle
  /\ \E c \in PlanetConfigs : \E a \in InitialAngles :
       planetProps = [position |-> c.position, orbitRadius |-> c.orbitRadius,
                      orbitSpeed |-> c.orbitSpeed,
                      rotationSpeed |-> c.rotationSpeed,
                      hasRing |-> c.hasRing, initialAngle |-> a]
  /\ elapsedTime = 0
  /\ planet = [s \in Scenes |-> Mounted(planetProps)]

\* the clock of the canvas advances
ClockTick ==
  /\ elapsedTime < MaxClock
  /\ elapsedTime' = elapsedTime + 1
  /\ UNCHANGED <<planetProps, planet, starVars, probe, soundVars, loginVars, uiVars>>

\* useFrame of the <Planet> of scene s
PlanetUseFrame(s) ==
  /\ planet[s].frames < MaxPlanetFrames
  /\ planet' = [planet EXCEPT ![s] = PlanetFrame(planetProps, planet[s], elapsedTime)]
  /\ UNCHANGED <<planetProps, elapsedTime, starVars, probe, soundVars, loginVars, uiVars>>

NextPlanet == ClockTick \/ \E s \in Scenes : PlanetUseFrame(s)

SpecPlanet == InitPlanet /\ [][NextPlanet]_vars

\* ---------------------------------------------------------- <LoginPage>
\* One visit of the login page. phase is the page's state (its last value
\* once the page is left); introTimer is the 500 ms timer of the first
\* effect, formTimers and navTimers count the pending 3000 ms timers of
\* handleTextComplete and of handleLogin / handleSignup, none of which is
\* ever cleared; formShown says that <LoginForm> is in the document, which
\* <AnimatePresence> keeps there while its exit animation runs.
MaxCallbacks == 2
MaxSubmits == 2

LoginPhases == <<"intro", "assembling", "form", "launching">>

\* setPhase(p) of a page that may have been left
SetPhase(p) == IF mounted THEN p ELSE phase

InitLogin ==
  /\ StarsIdle /\ NoProbe /\ PlanetIdle /\ UiIdle
  /\ soundMuted \in {"null", "true", "false"}
  /\ page = "Login"
  /\ isMuted = InitialMuted(soundMuted)
  /\ isMutedRef = FALSE
  /\ ambience = AmbienceEffect(isMuted, isMutedRef)
  /\ played = "none"
  /\ stored = IF soundMuted = "null" THEN <<>> ELSE <<soundMuted>>
  /\ sinceMount = 0
  /\ phase = "intro" /\ mounted = TRUE /\ introTimer = "pending"
  /\ formTimers = 0 /\ navTimers = 0 /\ formShown = FALSE
  /\ callbacks = 0 /\ submits = 0 /\ navigations = 0

\* setTimeout(() => { setPhase('assembling') }, 500)
IntroTimer ==
  /\ introTimer = "pending"
  /\ introTimer' = "fired"
  /\ phase' = SetPhase("assembling")
  /\ UNCHANGED <<mounted, formTimers, navTimers, formShown, callbacks,
                 submits, navigations, starVars, probe, soundVars, planetVars, uiVars>>

\* onAnimationComplete of the last letter of <ShatteringText>, which is
\* rendered with isAnimating while the phase is 'assembling':
\* handleTextComplete plays 'success' and starts a 3000 ms timer
TextComplete ==
  /\ mounted /\ phase = "assembling"
  /\ callbacks < MaxCallbacks
  /\ callbacks' = callbacks + 1
  /\ played' = Play(isMutedRef, "success", "none")
  /\ formTimers' = formTimers + 1
  /\ UNCHANGED <<phase, mounted, introTimer, navTimers, formShown, submits,
                 navigations, soundMuted, page, isMuted, isMutedRef, ambience,
                 stored, sinceMount, starVars, probe, planetVars, uiVars>>

\* setTimeout(() => { setPhase('form'); play('whoosh', 0.4) }, 3000)
FormTimer ==
  /\ formTimers > 0
  /\ formTimers' = formTimers - 1
  /\ phase' = SetPhase("form")
  /\ formShown' = mounted
  /\ played' = IF mounted THEN Play(isMutedRef, "whoosh", "none") ELSE played
  /\ UNCHANGED <<mounted, introTimer, navTimers, callbacks, submits,
                 navigations, soundMuted, page, isMuted, isMutedRef, ambience,
                 stored, sinceMount, starVars, probe, planetVars, uiVars>>

\* handleSubmit of <LoginForm>: handleLogin or handleSignup, which play
\* 'click', set the phase, play 'whoosh' and start a 3000 ms timer
Submit ==
  /\ mounted /\ formShown
  /\ submits < MaxSubmits
  /\ submits' = submits + 1
  /\ phase' = SetPhase("launching")
  /\ played' = Play(isMutedRef, "whoosh", Play(isMutedRef, "click", "none"))
  /\ navTimers' = navTimers + 1
  /\ UNCHANGED <<mounted, introTimer, formTimers, formShown, callbacks,
                 navigations, soundMuted, page, isMuted, isMutedRef, ambience,
                 stored, sinceMount, starVars, probe, planetVars, uiVars>>

\* the exit animation of the form has run: <LoginForm> leaves the document
FormExit ==
  /\ formShown /\ phase # "form"
  /\ formShown' = FALSE
  /\ UNCHANGED <<phase, mounted, introTimer, formTimers, navTimers, callbacks,
                 submits, navigations, starVars, probe, soundVars, planetVars, uiVars>>

\* setTimeout(() => { navigate('/dashboard') }, 3000): the route changes and
\* the login page, if still there, is unmounted (its cleanups clear the
\* intro timer and pause the sounds)
NavTimer ==
  /\ navTimers > 0
  /\ navTimers' = navTimers - 1
  /\ navigations' = navigations + 1
  /\ mounted' = FALSE
  /\ formShown' = FALSE
  /\ introTimer' = IF introTimer = "pending" THEN "cleared" ELSE introTimer
  /\ page' = "none"
  /\ isMuted' = TRUE /\ isMutedRef' = FALSE
  /\ ambience' = "paused" /\ played' = "none"
  /\ sinceMount' = 0
  /\ UNCHANGED <<phase, formTimers, callbacks, submits, soundMuted, stored,
                 starVars, probe, planetVars, uiVars>>

NextLogin ==
  \/ IntroTimer
  \/ TextComplete
  \/ FormTimer
  \/ Submit
  \/ FormExit
  \/ NavTimer
  \/ ToggleMute

SpecLogin == InitLogin /\ [][NextLogin]_vars

\* ------------------------------------------------ the pages' components
\* One page is mounted, with nothing stored under 'soundMuted': PlanetsPage
\* (selectedPlanet, showDetailedView), the <AnimatedCursor> of ExplorePage
\* (particles and the particleId of its effect; its position and isMoving,
\* which only place the cursor, are left out), Dashboard (showNavbar,
\* lastScrollY, and boundScrollY: the lastScrollY captured by the scroll
\* listener that is attached), the <WarpTunnel> of the journey page and the
\* <LoginForm> of the login page (calls: the onLogin / onSignup calls made).
\* probe keeps the last event and the state it was handled in.
MaxEvents == 4
MaxMoves == 18
MaxWarpFrames == 6

PlanetNames == {"Mercury", "Earth"}

\* container.scrollTop at a scroll event
ScrollTops == {0, 40, 100, 200}

\* The warp tunnel is kept in half units: 200 is the z of 100, warpSpeed 1
\* is the slider's 0.5 and 10 its 5; a frame delta is kept in fiftieths of
\* a second, so that speed * delta * 50 is warpSpeed * delta half units.
\* (x, y, z) of a particle as drawn: z = (Math.random() - 0.5) * 200
WarpDraws == {<<20, 0, 0 - 200>>, <<0, 70, 196>>, <<0 - 120, 0, 199>>}

\* the delta of a frame: 0, 1/50 s, 1 s
WarpDeltas == {0, 1, 50}

\* what is typed into a field of the form
Fields == {"", "a"}

InitPages ==
  /\ StarsIdle /\ PlanetIdle /\ LoginIdle
  /\ page \in {"Planets", "Explore", "Dashboard", "Journey", "Login"}
  /\ soundMuted = "null" /\ stored = <<>> /\ sinceMount = 0
  /\ isMuted = InitialMuted(soundMuted)
  /\ isMutedRef = FALSE
  /\ ambience = AmbienceEffect(isMuted, isMutedRef)
  /\ played = "none"
  /\ selectedPlanet = "null" /\ showDetailedView = FALSE
  /\ particles = <<>> /\ particleId = 0
  /\ showNavbar = TRUE /\ lastScrollY = 0 /\ boundScrollY = 0
  /\ IF page = "Journey"
     THEN /\ warpParticles \in [1..2 -> WarpDraws]
          /\ warpSpeed \in {1, 10}
     ELSE /\ warpParticles = <<>>
          /\ warpSpeed = 0
  /\ tunnelRotation = 0
  /\ mode = "login" /\ name = "" /\ email = "" /\ password = ""
  /\ hasSignup \in (IF page = "Login" THEN BOOLEAN ELSE {FALSE})
  /\ calls = <<>>
  /\ probe = [kind |-> "pages", event |-> "mount", n |-> 0, before |-> <<>>]

\* onClick of an <InteractivePlanet> or of a button of the planet list
PlanetClick(clicked) ==
  /\ page = "Planets" /\ probe.n < MaxEvents
  /\ selectedPlanet' = clicked
  /\ showDetailedView' = TRUE
  /\ played' = Play(isMutedRef, "click", "none")
  /\ probe' = [probe EXCEPT !.event = "click", !.n = @ + 1,
                            !.before = <<selectedPlanet, showDetailedView>>]
  /\ UNCHANGED <<particles, particleId, showNavbar, lastScrollY, boundScrollY,
                 warpParticles, warpSpeed, tunnelRotation, mode, name, email,
                 password, hasSignup, calls, soundMuted, page, isMuted,
                 isMutedRef, ambience, stored, sinceMount, starVars,
                 planetVars, loginVars>>

\* (variant: the info panel, and its close button, stay while the detailed
\* view is open)
CloseInfo_Anytime ==
  /\ page = "Planets" /\ probe.n < MaxEvents
  /\ selectedPlanet # "null"
  /\ selectedPlanet' = "null"
  /\ probe' = [probe EXCEPT !.event = "closeInfo", !.n = @ + 1,
                            !.before = <<selectedPlanet, showDetailedView>>]
  /\ UNCHANGED <<showDetailedView, particles, particleId, showNavbar,
                 lastScrollY, boundScrollY, warpParticles, warpSpeed,
                 tunnelRotation, mode, name, email, password, hasSignup, calls,
                 soundVars, starVars, planetVars, loginVars>>

\* the close button of the info panel, which is rendered for
\* selectedPlanet && !showDetailedView
CloseInfo ==
  /\ page = "Planets" /\ probe.n < MaxEvents
  /\ selectedPlanet # "null" /\ ~showDetailedView
  /\ selectedPlanet' = "null"
  /\ probe' = [probe EXCEPT !.event = "closeInfo", !.n = @ + 1,
                            !.before = <<selectedPlanet, showDetailedView>>]
  /\ UNCHANGED <<showDetailedView, particles, particleId, showNavbar,
                 lastScrollY, boundScrollY, warpParticles, warpSpeed,
                 tunnelRotation, mode, name, email, password, hasSignup, calls,
                 soundVars, starVars, planetVars, loginVars>>

\* the 'View Details' button of the info panel
ViewDetails ==
  /\ page = "Planets" /\ probe.n < MaxEvents
  /\ selectedPlanet # "null" /\ ~showDetailedView
  /\ showDetailedView' = TRUE
  /\ played' = Play(isMutedRef, "click", "none")
  /\ probe' = [probe EXCEPT !.event = "viewDetails", !.n = @ + 1,
                            !.before = <<selectedPlanet, showDetailedView>>]
  /\ UNCHANGED <<selectedPlanet, particles, particleId, showNavbar,
                 lastScrollY, boundScrollY, warpParticles, warpSpeed,
                 tunnelRotation, mode, name, email, password, hasSignup, calls,
                 soundMuted, page, isMuted, isMutedRef, ambience, stored,
                 sinceMount, starVars, planetVars, loginVars>>

\* a click on the backdrop or on the close button of the detailed view,
\* which is rendered for showDetailedView && selectedPlanet
CloseDetailed ==
  /\ page = "Planets" /\ probe.n < MaxEvents
  /\ showDetailedView /\ selectedPlanet # "null"
  /\ showDetailedView' = FALSE
  /\ probe' = [probe EXCEPT !.event = "closeDetailed", !.n = @ + 1,
                            !.before = <<selectedPlanet, showDetailedView>>]
  /\ UNCHANGED <<selectedPlanet, particles, particleId, showNavbar,
                 lastScrollY, boundScrollY, warpParticles, warpSpeed,
                 tunnelRotation, mode, name, email, password, hasSignup, calls,
                 soundVars, starVars, planetVars, loginVars>>

\* handleKeyDown for the key 'Escape'
Escape ==
  /\ page = "Planets" /\ probe.n < MaxEvents
  /\ showDetailedView' = (IF showDetailedView THEN FALSE ELSE showDetailedView)
  /\ probe' = [probe EXCEPT !.event = "escape", !.n = @ + 1,
                            !.before = <<selectedPlanet, showDetailedView>>]
  /\ UNCHANGED <<selectedPlanet, particles, particleId, showNavbar,
                 lastScrollY, boundScrollY, warpParticles, warpSpeed,
                 tunnelRotation, mode, name, email, password, hasSignup, calls,
                 soundVars, starVars, planetVars, loginVars>>

\* handleMouseMove: three new particles, and the last 50 of the list kept
\* ([...(prev || []), ...newParticles].slice(-50))
MouseMove ==
  /\ page = "Explore" /\ particleId < 3 * MaxMoves
  /\ LET all == particles \o <<particleId, particleId + 1, particleId + 2>>
     IN  particles' = SubSeq(all, Max(1, Len(all) - 49), Len(all))
  /\ particleId' = particleId + 3
  /\ probe' = [probe EXCEPT !.event = "mousemove", !.before = particles]
  /\ UNCHANGED <<selectedPlanet, showDetailedView, showNavbar, lastScrollY,
                 boundScrollY, warpParticles, warpSpeed, tunnelRotation, mode,
                 name, email, password, hasSignup, calls, soundVars, starVars,
                 planetVars, loginVars>>

\* (variant: the interval keeps the first 30 particles)
Cleanup_KeepOldest ==
  /\ page = "Explore"
  /\ particles' = SubSeq(particles, 1, IF Len(particles) < 30 THEN Len(particles) ELSE 30)
  /\ probe' = [probe EXCEPT !.event = "cleanup", !.before = particles]
  /\ UNCHANGED <<particleId, selectedPlanet, showDetailedView, showNavbar,
                 lastScrollY, boundScrollY, warpParticles, warpSpeed,
                 tunnelRotation, mode, name, email, password, hasSignup, calls,
                 soundVars, starVars, planetVars, loginVars>>

\* the 100 ms interval: (prev || []).slice(-30)
Cleanup ==
  /\ page = "Explore"
  /\ particles' = SubSeq(particles, Max(1, Len(particles) - 29), Len(particles))
  /\ probe' = [probe EXCEPT !.event = "cleanup", !.before = particles]
  /\ UNCHANGED <<particleId, selectedPlanet, showDetailedView, showNavbar,
                 lastScrollY, boundScrollY, warpParticles, warpSpeed,
                 tunnelRotation, mode, name, email, password, hasSignup, calls,
                 soundVars, starVars, planetVars, loginVars>>

\* handleScroll, as attached by the last run of its effect, for a scroll
\* event at scrollTop = y: it compares y with the lastScrollY it captured
Scroll(y) ==
  /\ page = "Dashboard" /\ probe.n < MaxEvents
  /\ showNavbar' = (IF y < 50 THEN TRUE
                    ELSE IF y > boundScrollY THEN FALSE ELSE TRUE)
  /\ lastScrollY' = y
  /\ probe' = [probe EXCEPT !.event = "scroll", !.n = @ + 1,
                            !.before = <<lastScrollY>>]
  /\ UNCHANGED <<boundScrollY, selectedPlanet, showDetailedView, particles,
                 particleId, warpParticles, warpSpeed, tunnelRotation, mode,
                 name, email, password, hasSignup, calls, soundVars, starVars,
                 planetVars, loginVars>>

\* the effect with the dependency [lastScrollY] runs again after the render
\* that a scroll event caused: the old listener is removed and one that
\* captures the new lastScrollY is attached
Rebind ==
  /\ page = "Dashboard" /\ boundScrollY # lastScrollY
  /\ boundScrollY' = lastScrollY
  /\ UNCHANGED <<showNavbar, lastScrollY, probe, selectedPlanet,
                 showDetailedView, particles, particleId, warpParticles,
                 warpSpeed, tunnelRotation, mode, name, email, password,
                 hasSignup, calls, soundVars, starVars, planetVars, loginVars>>

\* (variant: no particle is sent back)
WarpFrame_NoWrap(delta) ==
  /\ page = "Journey" /\ probe.n < MaxWarpFrames
  /\ warpParticles' = [i \in DOMAIN warpParticles |->
        <<warpParticles[i][1], warpParticles[i][2],
          warpParticles[i][3] + warpSpeed * delta>>]
  /\ tunnelRotation' = tunnelRotation + delta
  /\ probe' = [probe EXCEPT !.event = "frame", !.n = @ + 1,
                            !.before = <<warpParticles, delta>>]
  /\ UNCHANGED <<warpSpeed, selectedPlanet, showDetailedView, particles,
                 particleId, showNavbar, lastScrollY, boundScrollY, mode, name,
                 email, password, hasSignup, calls, soundVars, starVars,
                 planetVars, loginVars>>

\* useFrame of <WarpTunnel>: positions[i3 + 2] += speed * delta * 50, back
\* to -100 when above 100; tunnelRef.current.rotation.z += delta * 0.1
\* (kept in 500ths)
WarpFrame(delta) ==
  /\ page = "Journey" /\ probe.n < MaxWarpFrames
  /\ warpParticles' = [i \in DOMAIN warpParticles |->
        <<warpParticles[i][1], warpParticles[i][2],
          IF warpParticles[i][3] + warpSpeed * delta > 200 THEN 0 - 200
          ELSE warpParticles[i][3] + warpSpeed * delta>>]
  /\ tunnelRotation' = tunnelRotation + delta
  /\ probe' = [probe EXCEPT !.event = "frame", !.n = @ + 1,
                            !.before = <<warpParticles, delta>>]
  /\ UNCHANGED <<warpSpeed, selectedPlanet, showDetailedView, particles,
                 particleId, showNavbar, lastScrollY, boundScrollY, mode, name,
                 email, password, hasSignup, calls, soundVars, starVars,
                 planetVars, loginVars>>

\* the LOGIN and SIGN UP buttons of the form: setMode
SetMode(m) ==
  /\ page = "Login"
  /\ mode' = m
  /\ probe' = [probe EXCEPT !.event = "setMode",
                            !.before = <<mode, name, email, password>>]
  /\ UNCHANGED <<name, email, password, hasSignup, calls, selectedPlanet,
                 showDetailedView, particles, particleId, showNavbar,
                 lastScrollY, boundScrollY, warpParticles, warpSpeed,
                 tunnelRotation, soundVars, starVars, planetVars, loginVars>>

\* onChange of an input: setName (the name field is rendered in signup
\* mode only), setEmail, setPassword
Type(field, v) ==
  /\ page = "Login"
  /\ field = "name" => mode = "signup"
  /\ name' = (IF field = "name" THEN v ELSE name)
  /\ email' = (IF field = "email" THEN v ELSE email)
  /\ password' = (IF field = "password" THEN v ELSE password)
  /\ probe' = [probe EXCEPT !.event = "type",
                            !.before = <<mode, name, email, password>>]
  /\ UNCHANGED <<mode, hasSignup, calls, selectedPlanet, showDetailedView,
                 particles, particleId, showNavbar, lastScrollY, boundScrollY,
                 warpParticles, warpSpeed, tunnelRotation, soundVars, starVars,
                 planetVars, loginVars>>

\* (variant: every submit is a login)
SubmitForm_AlwaysLogin ==
  /\ page = "Login" /\ probe.n < MaxSubmits
  /\ calls' = Append(calls, [fn |-> "onLogin", args |-> <<email, password>>])
  /\ probe' = [probe EXCEPT !.event = "submit", !.n = @ + 1,
                            !.before = <<mode, name, email, password, Len(calls)>>]
  /\ UNCHANGED <<mode, name, email, password, hasSignup, selectedPlanet,
                 showDetailedView, particles, particleId, showNavbar,
                 lastScrollY, boundScrollY, warpParticles, warpSpeed,
                 tunnelRotation, soundVars, starVars, planetVars, loginVars>>

\* handleSubmit of the form (whatever the fields hold: the inputs' required
\* attribute only keeps the browser from sending some submit events)
SubmitForm ==
  /\ page = "Login" /\ probe.n < MaxSubmits
  /\ calls' = IF mode = "login"
              THEN Append(calls, [fn |-> "onLogin", args |-> <<email, password>>])
              ELSE IF hasSignup
              THEN Append(calls, [fn |-> "onSignup",
                                  args |-> <<name, email, password>>])
              ELSE calls
  /\ probe' = [probe EXCEPT !.event = "submit", !.n = @ + 1,
                            !.before = <<mode, name, email, password, Len(calls)>>]
  /\ UNCHANGED <<mode, name, email, password, hasSignup, selectedPlanet,
                 showDetailedView, particles, particleId, showNavbar,
                 lastScrollY, boundScrollY, warpParticles, warpSpeed,
                 tunnelRotation, soundVars, starVars, planetVars, loginVars>>

NextPages ==
  \/ \E clicked \in PlanetNames : PlanetClick(clicked)
  \/ CloseInfo
  \/ ViewDetails
  \/ CloseDetailed
  \/ Escape
  \/ MouseMove
  \/ Cleanup
  \/ \E y \in ScrollTops : Scroll(y)
  \/ Rebind
  \/ \E delta \in WarpDeltas : WarpFrame(delta)
  \/ \E m \in {"login", "signup"} : SetMode(m)
  \/ \E field \in {"name", "email", "password"} : \E v \in Fields : Type(field, v)
  \/ SubmitForm

SpecPages == InitPages /\ [][NextPages]_vars

\* ================================================================ claims
Dist(i) == DistanceToCenter(i)
ShellInner(p) == p.accretionDiskSize * 2
ShellOuter(p) == p.accretionDiskSize * 3

\* every coordinate a draw of the spawn-shell procedure can produce
ShellPoints(p) ==
  { SpawnPosition(p, t, f, r) : t \in ThetaDraws, f \in PhiDraws, r \in RadiusDraws }

Finite(i) ==
  /\ \A k \in 0..2 : positions[I3(i) + k] # NaN /\ velocities[I3(i) + k] # NaN
  /\ sizes[i] # NaN

C2_RespawnInSameStep ==
  \A i \in Stars : frame > 0 =>
     /\ (last[i].dist < Horizon(props)) <=> (last[i].branch = "respawn")
     /\ last[i].branch = "respawn" =>
          /\ Triple(positions, i) \in ShellPoints(props)
          /\ Dist(i) >= ShellInner(props) /\ Dist(i) <= ShellOuter(props)
          /\ Triple(velocities, i) = <<0, 0, 0>>
          /\ lifetimes[i] = 0
          /\ sizes[i] >= SCALE \div 5 /\ sizes[i] <= SCALE \div 2

C2_Witness ==
  \E i \in Stars :
     /\ last[i].branch = "respawn" /\ last[i].dist < Horizon(props)
     /\ Triple(velocities, i) = <<0, 0, 0>> /\ lifetimes[i] = 0

\* ---------------------------------------------------------------- C3
\* C3: when 2 * accretionDiskSize >= size * 1.5, a star that was inside the
\* horizon at the end of the previous frame (the start of this one) is not
\* inside it at the end of this frame.
C3_NoCollapse ==
  \A i \in Stars :
     (frame > 0 /\ ShellInner(props) >= Horizon(props)
        /\ last[i].dist < Horizon(props))
     => Dist(i) >= Horizon(props)

C3_Witness ==
  \E i \in Stars :
     frame > 1 /\ last[i].dist < Horizon(props) /\ Dist(i) >= Horizon(props)

\* ---------------------------------------------------------------- C4
\* C4: the number of stars never changes: count stays the allocated count,
\* the five buffers keep the lengths they were allocated with, and a frame
\* iterates exactly count stars.
C4_CountConstant ==
  /\ count = NumStars
  /\ Len(positions) = 3 * count /\ Len(velocities) = 3 * count
  /\ Len(colors) = 3 * count
  /\ Len(sizes) = count /\ Len(lifetimes) = count
  /\ DOMAIN last = 1..count

C4_Witness ==
  \E i \in Stars : last[i].branch = "respawn" /\ Len(positions) = 3 * NumStars

\* ---------------------------------------------------------------- C5
\* C5: the else-branch (the divisions by the distance) only ever ran for a
\* star whose distance at the start of the frame was at least size * 1.5,
\* which is positive; no buffer entry is NaN.
C5_NoZeroDivisor ==
  /\ Horizon(props) > 0
  /\ \A i \in Stars :
       /\ last[i].branch = "force" =>
            last[i].dist >= Horizon(props) /\ last[i].dist > 0
       /\ Finite(i)

\* a frame carried a star past the horizon
C5_Witness ==
  \E i \in Stars :
     last[i].branch = "force" /\ Dist(i) < Horizon(props) /\ Finite(i)

\* ---------------------------------------------------------------- C6
\* the start of the scenario of C6
InScenario(i) ==
  /\ props = ScenarioProps
  /\ last[i].origin = <<30 * SCALE, 0, 0>>

\* C6 (as claimed): in the scenario (one star, horizon 1.5, disk 12,
\* strength 0.6, start at distance 30 on the x axis, velocity 0) every step
\* strictly decreases the distance while it is at least 1.5, and the step
\* after it fell below 1.5 resamples the position to a distance in [24, 36].
C6_AsClaimed ==
  \A i \in Stars : InScenario(i) =>
     /\ last[i].branch = "force" => Dist(i) < last[i].dist
     /\ last[i].branch = "respawn" =>
          Dist(i) >= 24 * SCALE /\ Dist(i) <= 36 * SCALE

\* ---------------------------------------------------------------- C7
\* the rounding of the *= 0.99 writes: at most half a unit per step, which
\* the damping accumulates to at most 100 * (1 / 2) units
DampSlack == 100 \div 2

\* the magnitude of a velocity
Speed(v) == Distance(v[1], v[2], v[3])

\* C7: for a star held at a fixed position outside the horizon, from
\* velocity 0, the velocity magnitude after any number of steps stays within
\* 99 times the per-step impulse (the velocity gained in one step from rest,
\* before damping), and so does every component; the velocity approaches
\* that bound: after 100 steps it has passed 60 times the impulse.
C7_DampingBounds ==
  probe.kind = "held" =>
    /\ Speed(probe.vel) <= 99 * Speed(probe.impulse) + 2 * DampSlack
    /\ \A c \in 1..3 :
         /\ probe.vel[c] # NaN
         /\ Abs(probe.vel[c]) <= 99 * Abs(probe.impulse[c]) + DampSlack
         /\ probe.vel[c] * Sgn(probe.impulse[c]) >= 0
         /\ probe.steps >= 100 =>
              Abs(probe.vel[c]) >= 60 * Abs(probe.impulse[c]) - DampSlack

C7_Witness ==
  /\ probe.kind = "held" /\ probe.steps >= 100
  /\ \E c \in 1..3 : Abs(probe.vel[c]) > 60 * Abs(probe.impulse[c])
                        /\ Abs(probe.impulse[c]) > DampSlack

\* ---------------------------------------------------------------- C8
\* the floor of a size write: 0.1 of its base size
SizeFloor(r) == MulS(BaseSize(r), SCALE \div 10, HALF)

\* C8 (as claimed): of two size writes of the else-branch, the one at the
\* smaller distance is not larger, and no write is below its floor.
C8_AsClaimed ==
  (probe.kind = "size" /\ probe.done) =>
    /\ probe.d1 <= probe.d2 => probe.s1 <= probe.s2
    /\ probe.s1 >= SizeFloor(probe.r1) /\ probe.s2 >= SizeFloor(probe.r2)

\* C8 (amended): of two size writes of the else-branch with the same random
\* draw, the one at the smaller distance is not larger, and no write is
\* below its floor, 0.1 of its base size.
C8_MonotoneForSameDraw ==
  (probe.kind = "size" /\ probe.done) =>
    /\ (probe.d1 <= probe.d2 /\ probe.r1 = probe.r2) => probe.s1 <= probe.s2
    /\ probe.s1 >= SizeFloor(probe.r1) /\ probe.s2 >= SizeFloor(probe.r2)

\* a write on the floor and a larger write above it, same draw
C8_Witness ==
  /\ probe.kind = "size" /\ probe.done
  /\ probe.d1 < probe.d2 /\ probe.r1 = probe.r2
  /\ probe.s1 = SizeFloor(probe.r1) /\ probe.s1 < probe.s2

\* ---------------------------------------------------------------- C9
\* C9: on every page the value stored under 'soundMuted' is the string form
\* of the page's isMuted, or nothing was ever stored and the page is muted;
\* the stored value is the one written last; each toggleMute writes the
\* opposite of the value before it (so two toggles restore it); and a page,
\* when mounted, starts from the stored value, or muted without one.
C9_PersistentMute ==
  /\ page # "none" =>
       /\ soundMuted = "null" => isMuted
       /\ soundMuted # "null" =>
            soundMuted = (IF isMuted THEN "true" ELSE "false")
  /\ (soundMuted = "null") <=> (stored = <<>>)
  /\ stored # <<>> => soundMuted = stored[Len(stored)]
  /\ \A k \in 1..Len(stored) :
       /\ stored[k] \in {"true", "false"}
       /\ k > 1 => stored[k] # stored[k - 1]
       /\ k > 2 => stored[k] = stored[k - 2]

\* a page mounted after two toggles elsewhere starts from the stored value
C9_Witness ==
  /\ page = "Journey" /\ sinceMount = 0 /\ Len(stored) >= 3
  /\ soundMuted = "false" /\ ~isMuted

\* ---------------------------------------------------------------- C10
\* C10: the spawn-shell procedure maps its three draws to the point whose
\* height over the radius, cos(phi), is 2 * draw - 1 (linear in the draw,
\* so uniform in cos(phi) for a uniform draw, not in phi), whose azimuth is
\* the draw's fraction of a full turn (uniform in [0, 2 pi)), and whose
\* distance from the centre is the sampled radius.
C10_UniformSolidAngle ==
  (probe.kind = "spawn" /\ probe.done) =>
    LET radius == 2 * probe.p.accretionDiskSize
                    + MulS(probe.radius, probe.p.accretionDiskSize, HALF)
        turn == (12 * probe.theta) \div SCALE
        x == probe.pos[1]
        y == probe.pos[2]
        z == probe.pos[3]
    IN  /\ z = MulS(radius, 2 * probe.phi - SCALE, HALF)
        /\ Abs(Distance(x, y, z) - radius) <= 4
        /\ Abs(MulS(x, Sin(turn), FHALF) - MulS(y, Cos(turn), FHALF)) <= 2
        /\ MulS(x, Cos(turn), FHALF) + MulS(y, Sin(turn), FHALF) >= 0

\* a point below the equator, at a third of a turn
C10_Witness ==
  /\ probe.kind = "spawn" /\ probe.done
  /\ probe.phi = SCALE \div 4 /\ (12 * probe.theta) \div SCALE = 4
  /\ probe.pos[3] < 0 /\ probe.pos[1] < 0 /\ probe.pos[2] > 0

\* ---------------------------------------------------------------- C11
\* the reference step, written out from the arithmetic alone: the force,
\* the unit direction and the orbital speed at distance d of position pos
RefForce(p, d) == DivS(p.gravitationalStrength \div 2, MulS(d, d, HALF), 30)
RefDir(pos, d) ==
  <<DivS(0 - pos[1], d, 30), DivS(0 - pos[2], d, 30), DivS(0 - pos[3], d, 30)>>
RefOrbital(f, d) == 2 * Sqrt30(DivS(f, d, 20))
\* the radial and the tangential impulse, as stored
RefRadial(dir, f) ==
  [c \in 1..3 |-> RoundDiv(MulS(dir[c], f, FHALF), 10 * STOREDIV)]
RefTangential(dir, o) ==
  << RoundDiv(MulS(0 - dir[3], o, FHALF), 2 * STOREDIV), 0,
     RoundDiv(MulS(dir[1], o, FHALF), 2 * STOREDIV) >>
\* velocity += radial; velocity += tangential; velocity *= 0.99
RefVelocity(vel, radial, tangential) ==
  [c \in 1..3 |-> RoundDiv(99 * (vel[c] + radial[c] + tangential[c]), 100)]

\* C11: a star whose distance d at the start of a frame was at least the
\* horizon ends the frame with the velocity of the reference step (force =
\* gravitationalStrength * 0.5 / d^2, velocity += direction * force * 0.1,
\* tangential impulse, velocity *= 0.99), all from the distance and the
\* direction of the position before integration, and with its position
\* moved by exactly that damped velocity.
C11_ReferenceStep ==
  (probe.kind = "twin" /\ probe.branch = "force") =>
     LET pos == probe.prev.pos
         d == Distance(pos[1], pos[2], pos[3])
         f == RefForce(probe.p, d)
         dir == RefDir(pos, d)
         v == RefVelocity(probe.prev.vel, RefRadial(dir, f),
                          RefTangential(dir, RefOrbital(f, d)))
     IN  /\ d = probe.dist /\ d >= Horizon(probe.p)
         /\ \A c \in 1..3 :
              /\ probe.a.vel[c] = v[c]
              /\ probe.a.pos[c] = pos[c] + v[c]

\* a star that was already moving is pulled
C11_Witness ==
  /\ probe.kind = "twin" /\ probe.branch = "force"
  /\ probe.prev.vel[1] # 0 /\ probe.prev.vel[3] # 0
  /\ probe.a.vel # probe.prev.vel
  /\ probe.a.pos # probe.prev.pos

\* ---------------------------------------------------------------- C12
\* what the two orbital writes add to a velocity: the velocity after the +=
\* writes, less the velocity after them with orbitalSpeed 0
TangentialImpulse(p, vel, pos, d) ==
  LET f == ForceMagnitude(p, d)
      all == Kick(vel, f, Dir(pos[1], d), Dir(pos[2], d), Dir(pos[3], d),
                  OrbitalSpeed(f, d))
      radial == Kick(vel, f, Dir(pos[1], d), Dir(pos[2], d), Dir(pos[3], d), 0)
  IN  [c \in 1..3 |-> all[c] - radial[c]]

\* C12: in a step of the else-branch the orbital writes add (-dirZ, 0, dirX)
\* * orbitalSpeed * 0.5 with orbitalSpeed = 2 * sqrt(force / d), force being
\* the force of the radial impulse: nothing is added to the y component,
\* and the dot product of the added vector with the direction towards the
\* centre is 0 (up to the rounding of the stored components).
C12_TangentialPerpendicular ==
  (probe.kind = "twin" /\ probe.branch = "force") =>
     LET d == probe.dist
         dir == RefDir(probe.prev.pos, d)
         t == TangentialImpulse(probe.p, probe.prev.vel, probe.prev.pos, d)
     IN  /\ t[2] = 0
         /\ t[1] = RefTangential(dir, RefOrbital(RefForce(probe.p, d), d))[1]
         /\ t[3] = RefTangential(dir, RefOrbital(RefForce(probe.p, d), d))[3]
         /\ Abs(MulS(t[1], dir[1], FHALF) + MulS(t[2], dir[2], FHALF)
                + MulS(t[3], dir[3], FHALF)) <= 2

\* a star off the axes of the orbital plane, with a vertical offset
C12_Witness ==
  /\ probe.kind = "twin" /\ probe.branch = "force"
  /\ \A c \in 1..3 : probe.prev.pos[c] # 0
  /\ TangentialImpulse(probe.p, probe.prev.vel, probe.prev.pos, probe.dist)[1] # 0
  /\ TangentialImpulse(probe.p, probe.prev.vel, probe.prev.pos, probe.dist)[3] # 0

\* ---------------------------------------------------------------- C13
\* C13: in two runs of a star that differ only in the lifetime, with the
\* same draws, the positions, velocities and sizes are identical after
\* every step and both runs take the same branch; in each run a step of
\* the else-branch has increased the lifetime by exactly 1 and a respawn
\* has set it to 0, the branch having been chosen by the distance alone.
C13_LifetimeInformational ==
  probe.kind = "twin" =>
    /\ probe.a.pos = probe.b.pos /\ probe.a.vel = probe.b.vel
    /\ probe.a.size = probe.b.size
    /\ probe.branch = "force" =>
         /\ probe.a.life = probe.prev.life + SCALE
         /\ probe.b.life = probe.lifeB + SCALE
         /\ probe.dist >= Horizon(probe.p)
    /\ probe.branch = "respawn" =>
         /\ probe.a.life = 0 /\ probe.b.life = 0
         /\ probe.dist < Horizon(probe.p)

\* the runs have moved, with lifetimes that still differ
C13_Witness ==
  /\ probe.kind = "twin" /\ probe.steps > 10 /\ probe.branch = "force"
  /\ probe.a.life # probe.b.life
  /\ probe.a.vel # <<0, 0, 0>>

\* ---------------------------------------------------------------- C14
\* C14: a frame leaves every entry of the colour buffer and the props
\* (size, accretionDiskSize, gravitationalStrength) as they were; a respawn
\* does not draw the colour again.
C14_ColoursAndPropsFixed ==
  [][colors' = colors /\ props' = props]_vars

\* a yellow star has been respawned and is still yellow
C14_Witness ==
  \E i \in Stars :
     /\ last[i].branch = "respawn"
     /\ Triple(colors, i) = <<SCALE, (9 * SCALE) \div 10, (6 * SCALE) \div 10>>

\* ---------------------------------------------------------------- C15
\* the star buffers of b
StarBufs(b) == <<b.positions, b.velocities, b.sizes, b.lifetimes>>

\* C15: in a frame the disk loop writes the disk buffer alone and the star
\* loop the star buffers alone (either loop, run on its own, leaves the
\* other's buffers as they were, and the frame is the two results side by
\* side); iteration i of the star loop reads and writes the entries of
\* star i alone (its result is that of the iteration on star i's entries
\* before the frame); and the frame gives the same buffers when the stars
\* are processed in the opposite order.
C15_OwnEntriesOnly ==
  (probe.kind = "own" /\ frame > 0) =>
    \A diskOnly \in {RunDisk(probe.before)} :
    \A starsOnly \in {RunStars(probe.before, Ascending(count), probe.rnd)} :
    \A reversed \in {RunStars(probe.before, Descending(count), probe.rnd)} :
      /\ StarBufs(diskOnly) = StarBufs(probe.before)
      /\ starsOnly.disk = probe.before.disk
      /\ Bufs.disk = diskOnly.disk
      /\ StarBufs(Bufs) = StarBufs(starsOnly)
      /\ StarBufs(reversed) = StarBufs(starsOnly)
      /\ \A i \in Stars :
         \A st \in {[pos |-> Triple(probe.before.positions, i),
                     vel |-> Triple(probe.before.velocities, i),
                     life |-> probe.before.lifetimes[i]]} :
         \A new \in {Iterate(props, st,
                              Distance(st.pos[1], st.pos[2], st.pos[3]),
                              probe.rnd[i])} :
           /\ Triple(positions, i) = new.pos
           /\ Triple(velocities, i) = new.vel
           /\ sizes[i] = new.size /\ lifetimes[i] = new.life

\* a frame that respawned one star and pulled another
C15_Witness ==
  /\ probe.kind = "own" /\ frame > 0
  /\ \E i, j \in Stars :
       /\ probe.rnd[i].branch = "respawn" /\ probe.rnd[j].branch = "force"
       /\ Triple(positions, j) # Triple(probe.before.positions, j)
  /\ disk # probe.before.disk

\* C16 as stated: whatever the frame callback writes depends only on the
\* elapsed time -- two scenes whose last call was at the same elapsedTime
\* agree on the group position, the mesh rotation and the ring rotation.
C16_AsClaimed ==
  (planet # <<>> /\ planet["a"].frames > 0 /\ planet["b"].frames > 0
     /\ planet["a"].at = planet["b"].at)
  => /\ planet["a"].group = planet["b"].group
     /\ planet["a"].meshRotation = planet["b"].meshRotation
     /\ planet["a"].ringRotation = planet["b"].ringRotation

\* the distance of the group from (position[0], position[2]) in the xz plane
OrbitDistance(p, g) ==
  Sqrt20(MulS(g[1] - p.position[1], g[1] - p.position[1], HALF)
         + MulS(g[3] - p.position[3], g[3] - p.position[3], HALF))

\* C16, amended: for orbitRadius > 0 the group position written by a frame
\* depends only on the elapsedTime of that frame (two scenes whose last call
\* was at the same elapsedTime have the same group position, however many
\* calls each made), it lies on the circle of radius orbitRadius around
\* (position[0], position[2]) and keeps its y; the mesh rotation and the
\* ring rotation are not functions of the elapsed time: they grow by
\* rotationSpeed and by 0.001 with every call.
C16_OrbitStateless ==
  planet # <<>> =>
    /\ \A s \in Scenes :
         /\ planet[s].meshRotation = planet[s].frames * planetProps.rotationSpeed
         /\ planet[s].ringRotation =
              (IF planetProps.hasRing THEN planet[s].frames * (SCALE \div 1000) ELSE 0)
         /\ planet[s].group[2] = planetProps.position[2]
         /\ (planet[s].frames > 0 /\ planetProps.orbitRadius > 0)
              => Abs(OrbitDistance(planetProps, planet[s].group)
                     - planetProps.orbitRadius) <= 2
    /\ (planet["a"].frames > 0 /\ planet["b"].frames > 0
          /\ planet["a"].at = planet["b"].at /\ planetProps.orbitRadius > 0)
         => planet["a"].group = planet["b"].group

\* two scenes that made different numbers of calls, the last of each at the
\* same elapsed time, with the planet away from where it was mounted
C16_Witness ==
  /\ planet # <<>>
  /\ planetProps.orbitRadius > 0
  /\ planet["a"].frames = 1 /\ planet["b"].frames = 3
  /\ planet["a"].at = planet["b"].at /\ planet["a"].at > 1
  /\ planet["a"].group = planet["b"].group
  /\ planet["a"].group # planetProps.position
  /\ planet["a"].meshRotation # planet["b"].meshRotation

\* C17 as stated: on a mounted page the hook's muted flag is set whenever
\* the page's isMuted is, and no handler starts a sound while isMuted is true.
C17_AsClaimed ==
  (page # "none" /\ isMuted) => (isMutedRef /\ played = "none")

\* C18: the ambience track plays only on a mounted page whose isMuted is
\* false -- it is paused after a mount as muted, after every toggle to
\* muted and after the page is left.
C18_AmbienceOnlyUnmuted ==
  ambience = "playing" => (page # "none" /\ ~isMuted /\ ~isMutedRef)

\* a page muted by its second toggle since the mount: the ambience that
\* played before that toggle is paused
C18_Witness ==
  /\ page # "none" /\ isMuted /\ sinceMount >= 2
  /\ stored[Len(stored) - 1] = "false"
  /\ ambience = "paused"

\* the place of a phase in intro, assembling, form, launching
PhaseRank(p) == CHOOSE k \in 1..Len(LoginPhases) : LoginPhases[k] = p

\* C19 as stated: no step of the login page takes the phase to an earlier
\* one of intro, assembling, form, launching, whatever the order in which
\* the timers fire, the text completes and the form is submitted.
C19_AsClaimed ==
  [][phase # "none" => PhaseRank(phase') >= PhaseRank(phase)]_vars

\* C20 as stated: navigate('/dashboard') is called at most once in a visit
\* of the login page, and only after the phase was set to 'launching' by a
\* submission.
C20_AsClaimed ==
  /\ navigations <= 1
  /\ navigations > 0 => submits > 0

\* C21: on PlanetsPage the detailed view is open only for a selected planet
\* (showDetailedView implies selectedPlanet is not null), and Escape closes
\* the detailed view when it is open, does nothing when it is closed, and
\* leaves selectedPlanet as it was.
C21_DetailedNeedsPlanet ==
  page = "Planets" =>
    /\ showDetailedView => selectedPlanet # "null"
    /\ probe.event = "escape" =>
         /\ selectedPlanet = probe.before[1]
         /\ ~showDetailedView

\* Escape pressed on the open detailed view of a planet picked from the list
C21_Witness ==
  /\ page = "Planets" /\ probe.event = "escape"
  /\ probe.before = <<"Earth", TRUE>>
  /\ selectedPlanet = "Earth" /\ ~showDetailedView

\* C22: the particle list of the cursor never holds more than 50 particles,
\* holds at most 30 right after a cleanup tick, and is always the run of the
\* most recently created ids, in the order of their creation (so the ids are
\* distinct and strictly increasing); a mousemove adds three particles to
\* the list it found and a cleanup tick adds none.
C22_TrailBounded ==
  page = "Explore" =>
    /\ Len(particles) <= 50
    /\ \A k \in 1..Len(particles) :
         particles[k] = particleId - Len(particles) + k - 1
    /\ probe.event = "cleanup" =>
         Len(particles) = (IF Len(probe.before) < 30 THEN Len(probe.before) ELSE 30)
    /\ probe.event = "mousemove" =>
         Len(particles) = (IF Len(probe.before) + 3 < 50
                           THEN Len(probe.before) + 3 ELSE 50)

\* a cleanup tick on a full list of 50: the 30 newest particles stay
C22_Witness ==
  /\ page = "Explore" /\ probe.event = "cleanup"
  /\ Len(probe.before) = 50 /\ Len(particles) = 30
  /\ particles[1] = probe.before[21] /\ particles[1] > 0

\* C23 as stated: after each scroll event of the dashboard the navbar is
\* shown if scrollTop is below 50 and otherwise hidden exactly when scrollTop
\* is greater than the scrollTop of the previous handled event (0 before the
\* first); lastScrollY is the scrollTop of the last handled event.
C23_AsClaimed ==
  (page = "Dashboard" /\ probe.event = "scroll") =>
    showNavbar = (lastScrollY < 50 \/ lastScrollY <= probe.before[1])

\* C24: after every frame of the warp tunnel each particle's z is in
\* [-100, 100] -- it is the z before the frame plus speed * delta * 50, or
\* -100 if that sum is above 100 -- and the x and y of every particle are
\* those before the frame.
C24_WarpWraps ==
  page = "Journey" =>
    /\ \A i \in DOMAIN warpParticles :
         warpParticles[i][3] >= 0 - 200 /\ warpParticles[i][3] <= 200
    /\ probe.event = "frame" =>
         \A i \in DOMAIN warpParticles :
           LET old == probe.before[1][i]
               pushed == old[3] + warpSpeed * probe.before[2]
           IN  /\ warpParticles[i][1] = old[1]
               /\ warpParticles[i][2] = old[2]
               /\ pushed > 200 => warpParticles[i][3] = 0 - 200
               /\ pushed <= 200 => warpParticles[i][3] = pushed

\* a frame that sends one particle back to -100 and moves the other on
C24_Witness ==
  /\ page = "Journey" /\ probe.event = "frame" /\ probe.n > 1
  /\ probe.before[1][1][3] + warpSpeed * probe.before[2] > 200
  /\ warpParticles[1][3] = 0 - 200
  /\ warpParticles[2][3] > probe.before[1][2][3]
  /\ warpParticles[2][3] < 200

\* C25: a submit of the form in login mode makes one call, onLogin(email,
\* password); in signup mode it makes one call, onSignup(name, email,
\* password), if onSignup was given and no call otherwise; the arguments
\* are the field values at the submit, the calls made earlier stay, and a
\* switch of the mode leaves name, email and password as they were.
C25_SubmitByMode ==
  page = "Login" =>
    /\ probe.event = "submit" =>
         LET was == probe.before
             made == SubSeq(calls, was[5] + 1, Len(calls))
         IN  /\ Len(calls) >= was[5]
             /\ was[1] = "login" =>
                  made = <<[fn |-> "onLogin", args |-> <<was[3], was[4]>>]>>
             /\ (was[1] = "signup" /\ hasSignup) =>
                  made = <<[fn |-> "onSignup", args |-> <<was[2], was[3], was[4]>>]>>
             /\ (was[1] = "signup" /\ ~hasSignup) => made = <<>>
             /\ <<mode, name, email, password>> = SubSeq(was, 1, 4)
    /\ probe.event = "setMode" =>
         <<name, email, password>> = SubSeq(probe.before, 2, 4)

\* a signup submitted with all three fields filled, after a login submit
C25_Witness ==
  /\ page = "Login" /\ probe.event = "submit" /\ hasSignup
  /\ Len(calls) = 2
  /\ calls[1].fn = "onLogin"
  /\ calls[2] = [fn |-> "onSignup", args |-> <<"a", "a", "a">>]

====
